---- MODULE Spec2Model ----
(***************************************************************************)
(* Model of the scheduler extender of cmd/main.go: the start-up code       *)
(* (init, main, AddPrioritizeFunc), the HTTP handle built by               *)
(* PrioritizeRoute, the image_score priority (ImagePriority.Func) and its  *)
(* scoring function nodeHasImage.                                          *)
(*                                                                         *)
(* A Go string is a sequence of tokens (<<"nginx", ":1.7.9">>), so that    *)
(* strings.Contains and strings.HasPrefix are computed on it.  A Go slice  *)
(* is a sequence, a struct a record with the struct's field names, a nil   *)
(* pointer the value Nil.                                                  *)
(***************************************************************************)
EXTENDS Integers, Sequences, FiniteSets, TLC

VARIABLES
    \* ---- the process (package variables of main.go, the router, main's position)
    argv,              \* the flag values the process was started with
    httpAddr,          \* var httpAddr
    apiPrefix,         \* var apiPrefix
    prioritiesPrefix,  \* var prioritiesPrefix
    routes,            \* the routes registered on the httprouter.Router
    mainpc,            \* position of the main goroutine
    conn,              \* per serving goroutine: the request in hand and the handle's locals
    errorLog,          \* the kinds of handler panic the HTTP server has recovered and logged
    \* ---- one call of ImagePriority.Func (specification SpecFunc)
    funcIn,            \* [pod, nodes]
    funcOut,           \* the HostPriorityList returned, Nil before the call (SpecRelated:
                       \* the lists returned by the two calls, in their order)
    \* ---- one iteration of Func's loop on one node (specification SpecScore)
    scoreIn,           \* [pod, node]
    scoreRun,          \* the run of nodeHasImage on it, Nil before the call (SpecNear:
                       \* followed by the counts on the inputs one step away)
    scoreEntry         \* the HostPriority built from it, Nil before the call

procVars  == <<argv, httpAddr, apiPrefix, prioritiesPrefix, routes, mainpc, conn, errorLog>>
funcVars  == <<funcIn, funcOut>>
scoreVars == <<scoreIn, scoreRun, scoreEntry>>
vars      == <<argv, httpAddr, apiPrefix, prioritiesPrefix, routes, mainpc, conn, errorLog,
               funcIn, funcOut, scoreIn, scoreRun, scoreEntry>>

\* A value that may be absent (a nil pointer, a result not yet returned) is a sequence
\* of at most one element.
Nil == <<>>
Ptr(x) == <<x>>
Deref(p) == p[1]

(***************************************************************************)
(* Bounds of the inputs.                                                   *)
(***************************************************************************)
MaxContainers == 2     \* containers of a pod
MaxImages     == 2     \* image records of a node (SpecScore)
MaxNames      == 2     \* alias names of an image record (SpecScore)
MaxNodes      == 2     \* nodes of a request (SpecFunc)

\* sequences over S of length 0..n
RECURSIVE SeqsUpTo(_, _)
SeqsUpTo(S, n) ==
    IF n = 0 THEN {<<>>}
    ELSE LET shorter == SeqsUpTo(S, n - 1)
         IN  shorter \cup {Append(s, x) : s \in {t \in shorter : Len(t) = n - 1}, x \in S}

\* image references of containers: nginx, nginx:1.7.9, redis
ImageRefs == {<<"nginx">>, <<"nginx", ":1.7.9">>, <<"redis">>}
\* names a node reports: docker.io/library/nginx:1.7.9 and my-nginx-fork
ImageNames == {<<"docker.io/library/", "nginx", ":1.7.9">>, <<"my-", "nginx", "-fork">>}
NodeNames == {"worker-node1", "worker-node2"}

MkPod(images) ==
    [Name |-> "pod", Spec |-> [Containers |-> [c \in 1..Len(images) |-> [Image |-> images[c]]]]]
MkNode(name, records) ==
    [Name |-> name,
     Status |-> [Images |-> [i \in 1..Len(records) |-> [Names |-> records[i]]]]]

Pods == {MkPod(images) : images \in SeqsUpTo(ImageRefs, MaxContainers)}
\* every image inventory within the bounds
Inventories == SeqsUpTo(SeqsUpTo(ImageNames, MaxNames), MaxImages)

\* the image inventories of the nodes of a node list: none, nginx:1.7.9 pulled, and a
\* fork beside an image under two names
SampleInventories ==
    { <<>>,
      << <<<<"docker.io/library/", "nginx", ":1.7.9">>>> >>,
      << <<<<"my-", "nginx", "-fork">>>>,
         <<<<"docker.io/library/", "nginx", ":1.7.9">>, <<"my-", "nginx", "-fork">>>> >> }
SampleNodes == {MkNode(n, inv) : n \in NodeNames, inv \in SampleInventories}
NodeLists == SeqsUpTo(SampleNodes, MaxNodes)

(***************************************************************************)
(* nodeHasImage (main.go 86-109)                                           *)
(***************************************************************************)
\* strings.Contains replaced by the comparison s == substr
ContainsEqual(s, substr) == s = substr

\* strings.Contains(s, substr)
Contains(s, substr) ==
    \E k \in 0..(Len(s) - Len(substr)) : SubSeq(s, k + 1, k + Len(substr)) = substr

\* The run of nodeHasImage is the record
\*   count       var count (a uint32: it wraps only past 2^32 - 1 matching containers,
\*               far beyond any pod, and is an unbounded natural here)
\*   shouldBreak var shouldBreak of the container in hand
\*   visited     iterations of the loop on pod.Spec.Containers so far
\*   compared    <<container, record, name>> positions of the strings.Contains calls
\*   matched     <<container, record, name>> positions at which count++ ran
\* visited, compared and matched observe the execution; the code reads none of them.
NewRun == [count |-> 0, shouldBreak |-> FALSE, visited |-> 0,
           compared |-> <<>>, matched |-> <<>>]

\* lines 98-104 with a match that does not stop the scan of the container
MatchNoBreak(run, c, i, n) ==
    [run EXCEPT !.count = @ + 1,
                !.compared = Append(@, <<c, i, n>>),
                !.matched = Append(@, <<c, i, n>>)]

\* lines 98-104: the name matches: count++, shouldBreak = true
Match(run, c, i, n) ==
    [run EXCEPT !.count = @ + 1,
                !.shouldBreak = TRUE,
                !.compared = Append(@, <<c, i, n>>),
                !.matched = Append(@, <<c, i, n>>)]

\* lines 97-105 with the break of line 103 after the if: the first name of the record
\* is the only one compared
RangeNamesFirstOnly(ctnr, names, run, c, i, n) ==
    IF n > Len(names) THEN run
    ELSE IF Contains(names[n], ctnr.Image)
         THEN Match(run, c, i, n)
         ELSE [run EXCEPT !.compared = Append(@, <<c, i, n>>)]

\* lines 97-105: for _, imgName := range img.Names, from the n-th name on, for
\* container number c and record number i
RECURSIVE RangeNames(_, _, _, _, _, _)
RangeNames(ctnr, names, run, c, i, n) ==
    IF n > Len(names) THEN run
    ELSE IF Contains(names[n], ctnr.Image)
         THEN Match(run, c, i, n)                                   \* break
         ELSE RangeNames(ctnr, names, [run EXCEPT !.compared = Append(@, <<c, i, n>>)],
                         c, i, n + 1)

\* lines 93-106: for _, img := range nodeImages, from the i-th record on
RECURSIVE RangeImages(_, _, _, _, _)
RangeImages(ctnr, nodeImages, run, c, i) ==
    IF i > Len(nodeImages) THEN run
    ELSE IF run.shouldBreak THEN run                                \* break
    ELSE RangeImages(ctnr, nodeImages,
                     RangeNames(ctnr, nodeImages[i].Names, run, c, i, 1), c, i + 1)

\* lines 91-107: for _, ctnr := range pod.Spec.Containers, from the c-th container on
RECURSIVE RangeContainers(_, _, _, _)
RangeContainers(containers, nodeImages, run, c) ==
    IF c > Len(containers) THEN run
    ELSE RangeContainers(containers, nodeImages,
                         RangeImages(containers[c], nodeImages,
                                     [run EXCEPT !.shouldBreak = FALSE, !.visited = @ + 1],
                                     c, 1),
                         c + 1)

\* nodeHasImage without the test of lines 87-89
NodeHasImageRunNoEarlyReturn(pod, nodeImages, nodeName) ==
    RangeContainers(pod.Spec.Containers, nodeImages, NewRun, 1)

\* nodeHasImage(pod, nodeImages, nodeName), with what its execution did
NodeHasImageRun(pod, nodeImages, nodeName) ==
    IF Len(nodeImages) = 0
    THEN NewRun                                                     \* return 0
    ELSE RangeContainers(pod.Spec.Containers, nodeImages, NewRun, 1)

\* the uint32 nodeHasImage returns
nodeHasImage(pod, nodeImages, nodeName) == NodeHasImageRun(pod, nodeImages, nodeName).count

(***************************************************************************)
(* ImagePriority (main.go 68-83)                                           *)
(***************************************************************************)
\* lines 75-78 with the score of the entry one too high
HostPriorityOffByOne(host, score) == [Host |-> host, Score |-> score + 1]

\* lines 75-78: schedulingapi.HostPriority{Host: node.Name, Score: int(score)}; int has
\* 64 bits, so the conversion of a uint32 keeps the value
HostPriority(host, score) == [Host |-> host, Score |-> score]

\* lines 74-78: the entry of one node
ScoreNode(pod, node) ==
    HostPriority(node.Name, nodeHasImage(pod, node.Status.Images, node.Name))

\* Func reading the name of the first node in every iteration
ImagePriorityFuncStaleNode(pod, nodes) ==
    [i \in 1..Len(nodes) |->
        HostPriority(nodes[1].Name, nodeHasImage(pod, nodes[i].Status.Images, nodes[i].Name))]

\* Func with the loop starting at the second node, the first slot left zero
ImagePriorityFuncSkipFirst(pod, nodes) ==
    [i \in 1..Len(nodes) |->
        IF i = 1 THEN [Host |-> "", Score |-> 0] ELSE ScoreNode(pod, nodes[i])]

\* Func returning the entries ranked, the highest score first
ImagePriorityFuncRanked(pod, nodes) ==
    LET entry(i) == ScoreNode(pod, nodes[i])
        \* the place of node i: the nodes of a higher score, and those of the same
        \* score that come before it, go first
        place(i) == 1 + Cardinality({j \in 1..Len(nodes) :
                          \/ entry(j).Score > entry(i).Score
                          \/ entry(j).Score = entry(i).Score /\ j < i})
    IN  [k \in 1..Len(nodes) |-> entry(CHOOSE i \in 1..Len(nodes) : place(i) = k)]

\* Func with the count carried from one node to the next instead of starting at 0
RECURSIVE SumScores(_, _, _)
SumScores(pod, nodes, i) ==
    IF i = 0 THEN 0
    ELSE SumScores(pod, nodes, i - 1)
         + nodeHasImage(pod, nodes[i].Status.Images, nodes[i].Name)
ImagePriorityFuncAccumulate(pod, nodes) ==
    [i \in 1..Len(nodes) |-> HostPriority(nodes[i].Name, SumScores(pod, nodes, i))]

\* ImagePriority.Func(pod, nodes): priorityList = make(.., len(nodes)); priorityList[i] = ..
ImagePriorityFunc(pod, nodes) ==
    [i \in 1..Len(nodes) |-> ScoreNode(pod, nodes[i])]

ImagePriorityName == "image_score"

\* priorities := []PrioritizeMethod{ImagePriority} (main.go 166)
priorities == <<ImagePriorityName>>

(***************************************************************************)
(* Flags and init (main.go 30-52)                                          *)
(***************************************************************************)
\* strings.HasPrefix(s, prefix)
HasPrefix(s, prefix) == Len(s) >= Len(prefix) /\ SubSeq(s, 1, Len(prefix)) = prefix

\* the values given to -api-prefix, -priorities-prefix and -http-addr; the first of
\* each is the flag's default
ApiPrefixFlags == {<<"/", "my_scheduler_extension">>, <<"ext">>}
PrioritiesPrefixFlags == {<<"/", "my_new_priorities">>, <<"prio">>, <<>>}
HttpAddrFlags == {<<":", "80">>, <<"8080">>}
Argv == [api : ApiPrefixFlags, prio : PrioritiesPrefixFlags, addr : HttpAddrFlags]

\* lines 43-46 and 47-50 with the "/" added whatever the value starts with
AddSlashAlways(prefix) == <<"/">> \o prefix

\* lines 43-46 and 47-50: if !strings.HasPrefix(p, "/") { p = "/" + p }
AddSlash(prefix) == IF ~HasPrefix(prefix, <<"/">>) THEN <<"/">> \o prefix ELSE prefix

\* lines 39-42: if !strings.Contains(httpAddr, ":") { httpAddr = ":" + httpAddr }
AddColon(addr) == IF ~Contains(addr, <<":">>) THEN <<":">> \o addr ELSE addr

\* func init(): flag.Parse, the three corrections, prioritiesPrefix = apiPrefix + prioritiesPrefix
init ==
    /\ mainpc.at = "init"
    /\ httpAddr' = AddColon(argv.addr)
    /\ apiPrefix' = AddSlash(argv.api)
    /\ prioritiesPrefix' = AddSlash(argv.api) \o AddSlash(argv.prio)
    /\ mainpc' = [at |-> "range", i |-> 1]
    /\ UNCHANGED <<argv, routes, conn, errorLog, funcVars, scoreVars>>

(***************************************************************************)
(* main and AddPrioritizeFunc (main.go 156-175)                            *)
(***************************************************************************)
\* AddPrioritizeFunc(router, priorityMethod): path := prioritiesPrefix + "/" + Name;
\* router.POST(path, PrioritizeRoute(priorityMethod))
AddPrioritizeFunc ==
    /\ mainpc.at = "range"
    /\ mainpc.i <= Len(priorities)
    /\ routes' = routes \cup
          {[method |-> "POST",
            path |-> prioritiesPrefix \o <<"/">> \o <<priorities[mainpc.i]>>,
            priorityMethod |-> priorities[mainpc.i]]}
    /\ mainpc' = [mainpc EXCEPT !.i = @ + 1]
    /\ UNCHANGED <<argv, httpAddr, apiPrefix, prioritiesPrefix, conn, errorLog,
                   funcVars, scoreVars>>

\* http.ListenAndServe(httpAddr, router) begins to serve
ListenAndServe ==
    /\ mainpc.at = "range"
    /\ mainpc.i > Len(priorities)
    /\ mainpc' = [at |-> "serving", i |-> 0]
    /\ UNCHANGED <<argv, httpAddr, apiPrefix, prioritiesPrefix, routes, conn, errorLog,
                   funcVars, scoreVars>>

\* http.ListenAndServe returns an error (the address cannot be bound): glog.Fatal(err)
ListenFatal ==
    /\ mainpc.at = "range"
    /\ mainpc.i > Len(priorities)
    /\ mainpc' = [at |-> "exit", i |-> 0]
    /\ UNCHANGED <<argv, httpAddr, apiPrefix, prioritiesPrefix, routes, conn, errorLog,
                   funcVars, scoreVars>>

(***************************************************************************)
(* Request bodies and encoding/json                                        *)
(*                                                                         *)
(* A body on the wire is a JSON document: [syntax, members], syntax "eof"  *)
(* for zero bytes, "invalid" for bytes that are no JSON value, "object"    *)
(* for an object whose members are [key, kind, value] in their order on    *)
(* the wire.  r.Body is Nil or a pointer to the document.                  *)
(***************************************************************************)
Member(key, kind, value) == [key |-> key, kind |-> kind, value |-> value]
Object(members) == [syntax |-> "object", members |-> members]

NginxFull == <<"docker.io/library/", "nginx", ":1.7.9">>
NodeA == MkNode("worker-node2", << <<NginxFull>> >>)
NodeB == MkNode("worker-node1", <<>>)
NodeA2 == MkNode("worker-node2", << <<<<"my-", "nginx", "-fork">>>>, <<NginxFull>> >>)
PodNginx == MkPod(<< <<"nginx", ":1.7.9">> >>)
PodTwo == MkPod(<< <<"nginx">>, <<"redis">> >>)
NodeListObject(key, items) == <<Member(key, "array", items)>>

\* the documents sent as request bodies
Documents ==
    { [syntax |-> "eof", members |-> <<>>],
      [syntax |-> "invalid", members |-> <<>>],
      Object(<<>>),
      Object(<<Member("Pod", "number", 7)>>),
      Object(<<Member("Pod", "object", PodNginx)>>),
      Object(<<Member("Pod", "object", PodNginx), Member("Nodes", "null", 0)>>),
      Object(<<Member("Pod", "object", PodNginx),
               Member("Nodes", "object", NodeListObject("Items", <<NodeA, NodeB>>))>>),
      Object(<<Member("nodes", "object", NodeListObject("items", <<NodeB, NodeA2>>)),
               Member("pod", "object", PodTwo)>>),
      Object(<<Member("Pod", "object", PodTwo),
               Member("Nodes", "object", NodeListObject("Items", <<NodeA, NodeA2>>)),
               Member("NodeNames", "null", 0)>>),
      Object(<<Member("Pod", "object", MkPod(<<>>)),
               Member("Nodes", "object", <<>>)>>) }
Bodies == {Nil} \cup {Ptr(d) : d \in Documents}

\* var extenderArgs schedulingapi.ExtenderArgs: Pod *v1.Pod, Nodes *v1.NodeList
ZeroExtenderArgs == [Pod |-> Nil, Nodes |-> Nil]

\* the struct field a key of the document names: encoding/json matches the field names
\* without regard to case and skips the keys that name no field
FieldOf(key, fields) ==
    LET fold == [k \in {"Pod", "pod", "Nodes", "nodes", "Items", "items", "NodeNames"} |->
                    CASE k \in {"Pod", "pod"} -> "Pod"
                      [] k \in {"Nodes", "nodes"} -> "Nodes"
                      [] k \in {"Items", "items"} -> "Items"
                      [] OTHER -> k]
    IN  IF fold[key] \in fields THEN fold[key] ELSE ""

\* a v1.NodeList decoded from the members of a JSON object: Items []v1.Node
RECURSIVE DecodeNodeList(_, _, _)
DecodeNodeList(members, k, list) ==
    IF k > Len(members) THEN list
    ELSE DecodeNodeList(members, k + 1,
            IF FieldOf(members[k].key, {"Items"}) = "Items" /\ members[k].kind = "array"
            THEN [list EXCEPT !.Items = members[k].value]
            ELSE list)

\* the members of an object decoded into ExtenderArgs one after the other; a value of
\* the wrong JSON type is the error returned, null leaves the pointer nil
RECURSIVE DecodeMembers(_, _, _)
DecodeMembers(members, k, res) ==
    IF k > Len(members) THEN res
    ELSE LET m == members[k]
             f == FieldOf(m.key, {"Pod", "Nodes"})
         IN  DecodeMembers(members, k + 1,
                CASE f = "" \/ m.kind = "null" -> res
                  [] m.kind = "number" ->
                        IF res.err = "" THEN [res EXCEPT !.err = "UnmarshalTypeError"] ELSE res
                  [] f = "Pod" -> [res EXCEPT !.args.Pod = Ptr(m.value)]
                  [] OTHER -> [res EXCEPT !.args.Nodes =
                                            Ptr(DecodeNodeList(m.value, 1, [Items |-> <<>>]))])

\* json.NewDecoder(body).Decode(&extenderArgs): [err, args], err "" for nil
JsonDecode(doc) ==
    CASE doc.syntax = "eof" -> [err |-> "EOF", args |-> ZeroExtenderArgs]
      [] doc.syntax = "invalid" -> [err |-> "SyntaxError", args |-> ZeroExtenderArgs]
      [] OTHER -> DecodeMembers(doc.members, 1, [err |-> "", args |-> ZeroExtenderArgs])

\* json.Marshal(hostPriorityList): the array of {"Host": .., "Score": ..} objects, each
\* object the sequence of its <<key, value>> members
JsonMarshal(hostPriorityList) ==
    LET list == Deref(hostPriorityList)
    IN  [j \in 1..Len(list) |-> << <<"Host", list[j].Host>>, <<"Score", list[j].Score>> >>]

(***************************************************************************)
(* The handle of PrioritizeRoute (main.go 111-153), one per request, run   *)
(* by the goroutine net/http starts for the connection                     *)
(***************************************************************************)
Workers == {"g1", "g2"}

\* http.ResponseWriter: the header map, the WriteHeader calls, the Write calls
NewResponseWriter == [ContentType |-> "", WriteHeader |-> <<>>, Write |-> <<>>]

\* a goroutine without a request
IdleConn ==
    [pc |-> "idle",
     priorityMethod |-> "",
     Body |-> Nil,                     \* r.Body
     w |-> NewResponseWriter,
     extenderArgs |-> ZeroExtenderArgs,
     hostPriorityList |-> Nil,
     resultBody |-> Nil,
     panic |-> "",                     \* the value the handle panicked with
     steps |-> <<>>,                   \* the steps of the handle run so far
     afterPanic |-> FALSE]             \* arrived after the server logged a decoding panic

\* the router dispatches a POST on a registered path to the route's handle
Receive(g, body) ==
    /\ mainpc.at = "serving"
    /\ conn[g].pc = "idle"
    /\ \E r \in routes :
          conn' = [conn EXCEPT ![g] = [IdleConn EXCEPT !.pc = "check",
                                                       !.priorityMethod = r.priorityMethod,
                                                       !.Body = body,
                                                       !.afterPanic = ("decode error" \in errorLog)]]
    /\ UNCHANGED <<argv, httpAddr, apiPrefix, prioritiesPrefix, routes, mainpc, errorLog,
                   funcVars, scoreVars>>

\* http.Error(w, msg, 400)
HttpError(w, code) ==
    [w EXCEPT !.ContentType = "text/plain; charset=utf-8",
              !.WriteHeader = Append(@, code),
              !.Write = Append(@, "the request is empty, expecting a pod and a list of nodes!")]

\* lines 123-126 and checkRequestBody: r.Body == nil is answered 400 and the handle returns
CheckRequestBody(g) ==
    /\ conn[g].pc = "check"
    /\ conn' = [conn EXCEPT ![g] =
                  IF conn[g].Body = Nil
                  THEN [@ EXCEPT !.w = HttpError(@, 400),
                                 !.steps = Append(@, "check"),
                                 !.pc = "done"]
                  ELSE [@ EXCEPT !.steps = Append(@, "check"), !.pc = "decode"]]
    /\ UNCHANGED <<argv, httpAddr, apiPrefix, prioritiesPrefix, routes, mainpc, errorLog,
                   funcVars, scoreVars>>

\* lines 134-136: if err := json.NewDecoder(body).Decode(&extenderArgs); err != nil { panic(err) }
Decode(g) ==
    /\ conn[g].pc = "decode"
    /\ LET res == JsonDecode(Deref(conn[g].Body))
       IN  conn' = [conn EXCEPT ![g] =
                      IF res.err # ""
                      THEN [@ EXCEPT !.extenderArgs = res.args,
                                     !.steps = Append(@, "decode"),
                                     !.panic = res.err,
                                     !.pc = "panic"]
                      ELSE [@ EXCEPT !.extenderArgs = res.args,
                                     !.steps = Append(@, "decode"),
                                     !.pc = "handler"]]
    /\ UNCHANGED <<argv, httpAddr, apiPrefix, prioritiesPrefix, routes, mainpc, errorLog,
                   funcVars, scoreVars>>

\* the Func of the priority method of a name
FuncOf(name, pod, nodes) ==
    CASE name = ImagePriorityName -> ImagePriorityFunc(pod, nodes)

\* lines 131 and 138 with extenderArgs a package variable that all handles decode into:
\* the handle reads what another handle in hand has decoded since
HandlerSharedArgs(g) ==
    /\ conn[g].pc = "handler"
    /\ LET later == {h \in Workers \ {g} : conn[h].pc \in {"handler", "marshal", "write"}}
           args == IF later # {} THEN conn[CHOOSE h \in later : TRUE].extenderArgs
                   ELSE conn[g].extenderArgs
       IN  conn' = [conn EXCEPT ![g] =
                      IF args.Pod = Nil \/ args.Nodes = Nil
                      THEN [@ EXCEPT !.panic = "nil pointer dereference", !.pc = "panic"]
                      ELSE [@ EXCEPT !.hostPriorityList =
                                        Ptr(FuncOf(conn[g].priorityMethod, Deref(args.Pod),
                                                   Deref(args.Nodes).Items)),
                                     !.steps = Append(@, "score"),
                                     !.pc = "marshal"]]
    /\ UNCHANGED <<argv, httpAddr, apiPrefix, prioritiesPrefix, routes, mainpc, errorLog,
                   funcVars, scoreVars>>

\* lines 138-142 and PrioritizeMethod.Handler: p.Func(*args.Pod, args.Nodes.Items); a nil
\* args.Pod or args.Nodes is a nil pointer dereference before Func is called; Func
\* returns a nil error
Handler(g) ==
    /\ conn[g].pc = "handler"
    /\ LET args == conn[g].extenderArgs
       IN  conn' = [conn EXCEPT ![g] =
                      IF args.Pod = Nil \/ args.Nodes = Nil
                      THEN [@ EXCEPT !.panic = "nil pointer dereference", !.pc = "panic"]
                      ELSE [@ EXCEPT !.hostPriorityList =
                                        Ptr(FuncOf(conn[g].priorityMethod, Deref(args.Pod),
                                                   Deref(args.Nodes).Items)),
                                     !.steps = Append(@, "score"),
                                     !.pc = "marshal"]]
    /\ UNCHANGED <<argv, httpAddr, apiPrefix, prioritiesPrefix, routes, mainpc, errorLog,
                   funcVars, scoreVars>>

\* line 144: resultBody, err := json.Marshal(hostPriorityList); a slice of structs of a
\* string and an int always encodes
Marshal(g) ==
    /\ conn[g].pc = "marshal"
    /\ conn' = [conn EXCEPT ![g] =
                  [@ EXCEPT !.resultBody = Ptr(JsonMarshal(conn[g].hostPriorityList)),
                            !.steps = Append(@, "encode"),
                            !.pc = "write"]]
    /\ UNCHANGED <<argv, httpAddr, apiPrefix, prioritiesPrefix, routes, mainpc, errorLog,
                   funcVars, scoreVars>>

\* lines 148-150 with WriteHeader called before Header().Set, which then sets nothing
\* that is sent
WriteHeaderFirst(g) ==
    /\ conn[g].pc = "write"
    /\ conn' = [conn EXCEPT ![g] =
                  [@ EXCEPT !.w = [@ EXCEPT !.WriteHeader = Append(@, 200),
                                            !.Write = Append(@, Deref(conn[g].resultBody))],
                            !.steps = Append(@, "write"),
                            !.pc = "done"]]
    /\ UNCHANGED <<argv, httpAddr, apiPrefix, prioritiesPrefix, routes, mainpc, errorLog,
                   funcVars, scoreVars>>

\* lines 148-150: Header().Set("Content-Type", ..); WriteHeader(http.StatusOK); Write(resultBody)
Write(g) ==
    /\ conn[g].pc = "write"
    /\ conn' = [conn EXCEPT ![g] =
                  [@ EXCEPT !.w = [@ EXCEPT !.ContentType = "application/json",
                                            !.WriteHeader = Append(@, 200),
                                            !.Write = Append(@, Deref(conn[g].resultBody))],
                            !.steps = Append(@, "write"),
                            !.pc = "done"]]
    /\ UNCHANGED <<argv, httpAddr, apiPrefix, prioritiesPrefix, routes, mainpc, errorLog,
                   funcVars, scoreVars>>

\* the handle has returned: the server sends what was written and the goroutine takes
\* the next request
Finish(g) ==
    /\ conn[g].pc = "done"
    /\ conn' = [conn EXCEPT ![g] = IdleConn]
    /\ UNCHANGED <<argv, httpAddr, apiPrefix, prioritiesPrefix, routes, mainpc, errorLog,
                   funcVars, scoreVars>>

\* what the server's log says of a panic: the error of Decode, or a runtime error
PanicKind(value) ==
    IF value \in {"EOF", "SyntaxError", "UnmarshalTypeError"}
    THEN "decode error" ELSE "runtime error"

\* the handle has panicked and the process exits with the panic
RecoverExits(g) ==
    /\ conn[g].pc = "panic"
    /\ mainpc' = [at |-> "exit", i |-> 0]
    /\ UNCHANGED <<argv, httpAddr, apiPrefix, prioritiesPrefix, routes, conn, errorLog,
                   funcVars, scoreVars>>

\* the handle has panicked: the router has no PanicHandler, and net/http, which runs
\* the handle for ListenAndServe, recovers the panic of a handler, logs it and closes
\* the connection; nothing is answered and the process goes on
Recover(g) ==
    /\ conn[g].pc = "panic"
    /\ errorLog' = errorLog \cup {PanicKind(conn[g].panic)}
    /\ conn' = [conn EXCEPT ![g] = IdleConn]
    /\ UNCHANGED <<argv, httpAddr, apiPrefix, prioritiesPrefix, routes, mainpc,
                   funcVars, scoreVars>>

(***************************************************************************)
(* Spec: the process from its start                                        *)
(***************************************************************************)
Init ==
    /\ argv \in Argv
    /\ httpAddr = <<>> /\ apiPrefix = <<>> /\ prioritiesPrefix = <<>>
    /\ routes = {}
    /\ mainpc = [at |-> "init", i |-> 0]
    /\ conn = [g \in Workers |-> IdleConn]
    /\ errorLog = {}
    /\ funcIn = Nil /\ funcOut = Nil
    /\ scoreIn = Nil /\ scoreRun = Nil /\ scoreEntry = Nil

Next ==
    \/ init
    \/ AddPrioritizeFunc
    \/ ListenAndServe
    \/ ListenFatal
    \/ \E g \in Workers :
          \/ \E body \in Bodies : Receive(g, body)
          \/ CheckRequestBody(g)
          \/ Decode(g)
          \/ Handler(g)
          \/ Marshal(g)
          \/ Write(g)
          \/ Finish(g)
          \/ Recover(g)

Spec == Init /\ [][Next]_vars

(***************************************************************************)
(* SpecScore: Func's loop body on every pod and every node within bounds   *)
(***************************************************************************)
\* no process: the function is called on its own
ProcIdle ==
    /\ argv = [api |-> <<>>, prio |-> <<>>, addr |-> <<>>]
    /\ httpAddr = <<>> /\ apiPrefix = <<>> /\ prioritiesPrefix = <<>>
    /\ routes = {} /\ mainpc = [at |-> "off", i |-> 0]
    /\ conn = [g \in Workers |-> IdleConn] /\ errorLog = {}
FuncIdle == funcIn = Nil /\ funcOut = Nil

InitScore ==
    /\ ProcIdle /\ FuncIdle
    /\ scoreIn \in {[pod |-> p, node |-> MkNode(n, inv)] :
                        p \in Pods, n \in {"worker-node1"}, inv \in Inventories}
    /\ scoreRun = Nil
    /\ scoreEntry = Nil

\* lines 74-78 on scoreIn
CallScore ==
    /\ scoreRun = Nil
    /\ scoreRun' = Ptr(NodeHasImageRun(scoreIn.pod, scoreIn.node.Status.Images,
                                        scoreIn.node.Name))
    /\ scoreEntry' = Ptr(ScoreNode(scoreIn.pod, scoreIn.node))
    /\ UNCHANGED <<scoreIn, procVars, funcVars>>

NextScore == CallScore
SpecScore == InitScore /\ [][NextScore]_vars

(***************************************************************************)
(* SpecNear: nodeHasImage on a pod and a node, then on every pod and node  *)
(* one step away: one image record, one alias or one container taken out,  *)
(* or two adjacent records, aliases or containers exchanged                *)
(***************************************************************************)
DropAt(q, k) == SubSeq(q, 1, k - 1) \o SubSeq(q, k + 1, Len(q))
SwapAt(q, k) == [q EXCEPT ![k] = q[k + 1], ![k + 1] = q[k]]

\* nodeHasImage on each of them; the entry at a position is the count returned when
\* the edit is made at that position
NearCounts(pod, node) ==
    LET images == node.Status.Images
        containers == pod.Spec.Containers
        onImages(imgs) == nodeHasImage(pod, imgs, node.Name)
        onContainers(ctnrs) ==
            nodeHasImage([pod EXCEPT !.Spec.Containers = ctnrs], images, node.Name)
    IN  [lessRecord    |-> [i \in 1..Len(images) |-> onImages(DropAt(images, i))],
         lessAlias     |-> [i \in 1..Len(images) |->
                              [n \in 1..Len(images[i].Names) |->
                                  onImages([images EXCEPT ![i].Names = DropAt(@, n)])]],
         lessContainer |-> [c \in 1..Len(containers) |-> onContainers(DropAt(containers, c))],
         swapRecords   |-> [i \in 1..(Len(images) - 1) |-> onImages(SwapAt(images, i))],
         swapAliases   |-> [i \in 1..Len(images) |->
                              [n \in 1..(Len(images[i].Names) - 1) |->
                                  onImages([images EXCEPT ![i].Names = SwapAt(@, n)])]],
         swapContainers |-> [c \in 1..(Len(containers) - 1) |->
                               onContainers(SwapAt(containers, c))]]

\* the calls of nodeHasImage on the inputs one step from scoreIn; scoreRun then holds
\* the run on scoreIn and the counts of these calls
CallNear ==
    /\ Len(scoreRun) = 1
    /\ scoreRun' = Append(scoreRun, NearCounts(scoreIn.pod, scoreIn.node))
    /\ UNCHANGED <<scoreIn, scoreEntry, procVars, funcVars>>

NextNear == CallScore \/ CallNear
SpecNear == InitScore /\ [][NextNear]_vars

(***************************************************************************)
(* SpecFunc: ImagePriority.Func on every pod and node list within bounds   *)
(***************************************************************************)
ScoreIdle == scoreIn = Nil /\ scoreRun = Nil /\ scoreEntry = Nil

InitFunc ==
    /\ ProcIdle /\ ScoreIdle
    /\ funcIn \in {[pod |-> p, nodes |-> ns] : p \in Pods, ns \in NodeLists}
    /\ funcOut = Nil

\* priorityMethod.Func(pod, nodes) for ImagePriority; the error returned is nil
CallFunc ==
    /\ funcOut = Nil
    /\ funcOut' = Ptr(ImagePriorityFunc(funcIn.pod, funcIn.nodes))
    /\ UNCHANGED <<funcIn, procVars, scoreVars>>

NextFunc == CallFunc
SpecFunc == InitFunc /\ [][NextFunc]_vars

(***************************************************************************)
(* SpecRelated: ImagePriority.Func called on a node list and then, with    *)
(* the same pod, on a second list made from it: the nodes in another       *)
(* order, one node removed, one node added, or one node changed            *)
(***************************************************************************)
RemoveAt(q, k) == SubSeq(q, 1, k - 1) \o SubSeq(q, k + 1, Len(q))
InsertAt(q, k, x) == SubSeq(q, 1, k - 1) \o <<x>> \o SubSeq(q, k, Len(q))
Reorderings(q) ==
    {[i \in 1..Len(q) |-> q[p[i]]] :
        p \in {f \in [1..Len(q) -> 1..Len(q)] :
                  \A a, b \in 1..Len(q) : a # b => f[a] # f[b]}}

\* the node lists made from nodes by one such change, within MaxNodes nodes
RelatedNodeLists(nodes) ==
    (Reorderings(nodes)
       \cup {RemoveAt(nodes, k) : k \in 1..Len(nodes)}
       \cup {[nodes EXCEPT ![k] = x] : k \in 1..Len(nodes), x \in SampleNodes}
       \cup (IF Len(nodes) < MaxNodes
             THEN {InsertAt(nodes, k, x) : k \in 1..(Len(nodes) + 1), x \in SampleNodes}
             ELSE {}))
    \ {nodes}

InitRelated ==
    /\ ProcIdle /\ ScoreIdle
    /\ \E p \in Pods, ns \in NodeLists \ {<<>>} :
          \E o \in RelatedNodeLists(ns) : funcIn = [pod |-> p, nodes |-> ns, other |-> o]
    /\ funcOut = Nil

\* the second call of Func, on funcIn.other; funcOut then holds both lists returned
CallFuncOther ==
    /\ Len(funcOut) = 1
    /\ funcOut' = Append(funcOut, ImagePriorityFunc(funcIn.pod, funcIn.other))
    /\ UNCHANGED <<funcIn, procVars, scoreVars>>

NextRelated == CallFunc \/ CallFuncOther
SpecRelated == InitRelated /\ [][NextRelated]_vars

(***************************************************************************)
(* Properties of nodeHasImage and of the entry built from it (SpecScore)   *)
(***************************************************************************)
ScoreDone == scoreRun # Nil
ScoreContainers == scoreIn.pod.Spec.Containers
ScoreImages == scoreIn.node.Status.Images

\* sub occurs in s as a contiguous run of tokens
IsSubstringOf(sub, s) == \E a, b \in 0..Len(s) : SubSeq(s, a + 1, b) = sub

\* the <<record, name>> positions of the node whose name has the image of container c
\* as a substring
MatchingNames(c) ==
    UNION {{<<i, n>> : n \in {m \in 1..Len(ScoreImages[i].Names) :
                                IsSubstringOf(ScoreContainers[c].Image,
                                              ScoreImages[i].Names[m])}} :
           i \in 1..Len(ScoreImages)}

\* the containers of the pod with at least one matching name on the node
MatchedContainers == {c \in 1..Len(ScoreContainers) : MatchingNames(c) # {}}

\* the positions of sequence q that belong to container c
SelectIdx(q, c) == {k \in 1..Len(q) : q[k][1] = c}

\* C3: the score nodeHasImage returns is the number of containers of the pod whose
\* image reference is a substring of at least one alias name of at least one image
\* record of the node.
C3_ScoreIsMatchCount ==
    ScoreDone => Deref(scoreRun).count = Cardinality(MatchedContainers)

\* C3 witness: a scored node on which one container of the pod matches and another
\* does not.
C3_Witness ==
    /\ ScoreDone
    /\ Len(ScoreContainers) = 2
    /\ Cardinality(MatchedContainers) = 1
    /\ Deref(scoreRun).count = 1

\* C4: the Score of a node's entry is at least 0 and at most the number of containers
\* of the pod; a pod without containers scores 0.
C4_ScoreWithinContainers ==
    ScoreDone =>
        /\ Deref(scoreEntry).Score >= 0
        /\ Deref(scoreEntry).Score <= Len(ScoreContainers)
        /\ (Len(ScoreContainers) = 0 => Deref(scoreEntry).Score = 0)

\* C4 witness: an entry whose Score reaches the number of containers, two or more.
C4_Witness ==
    /\ ScoreDone
    /\ Len(ScoreContainers) >= 2
    /\ Deref(scoreEntry).Score = Len(ScoreContainers)

\* C5: a container with a matching name adds exactly 1 to the score however many
\* names and records match it (and a container without one adds nothing); its match
\* is the last name compared for it, so nothing after the first match is counted.
C5_CountedOncePerContainer ==
    ScoreDone =>
        LET run == Deref(scoreRun)
        IN  /\ run.count = Len(run.matched)
            /\ \A c \in 1..Len(ScoreContainers) :
                  LET hits == SelectIdx(run.matched, c)
                      cmps == SelectIdx(run.compared, c)
                  IN  /\ Cardinality(hits) = IF MatchingNames(c) # {} THEN 1 ELSE 0
                      /\ \A h \in hits :
                            /\ <<run.matched[h][2], run.matched[h][3]>> \in MatchingNames(c)
                            /\ \A k \in cmps :
                                  k <= CHOOSE m \in cmps : run.compared[m] = run.matched[h]

\* C5 witness: a container that three or more names of the node match, in two or more
\* records, counted once.
C5_Witness ==
    /\ ScoreDone
    /\ Len(ScoreContainers) = 1
    /\ Cardinality(MatchingNames(1)) >= 3
    /\ Cardinality({p[1] : p \in MatchingNames(1)}) >= 2
    /\ Deref(scoreRun).count = 1

\* C6: a node with an empty image list scores 0 for every pod, and nodeHasImage
\* returns before it visits any container.
C6_EmptyImageListScoresZero ==
    (ScoreDone /\ Len(ScoreImages) = 0) =>
        /\ Deref(scoreEntry).Score = 0
        /\ Deref(scoreRun).count = 0
        /\ Deref(scoreRun).visited = 0
        /\ Deref(scoreRun).compared = <<>>

\* C6 witness: a pod with two containers scored on a node without images.
C6_Witness ==
    /\ ScoreDone
    /\ Len(ScoreImages) = 0
    /\ Len(ScoreContainers) = 2
    /\ Deref(scoreEntry).Score = 0

(***************************************************************************)
(* Properties of the ScoreList of image_score (SpecFunc)                   *)
(***************************************************************************)
FuncDone == funcOut # Nil
FuncNames == [i \in 1..Len(funcIn.nodes) |-> funcIn.nodes[i].Name]
FuncHosts == [j \in 1..Len(Deref(funcOut)) |-> Deref(funcOut)[j].Host]
Distinct(q) == \A i, j \in 1..Len(q) : i # j => q[i] # q[j]

\* C1: the ScoreList has as many entries as the node list has nodes, every node's name
\* is the Host of an entry, and every Host is the name of a node.
C1_OneEntryPerNode ==
    FuncDone =>
        /\ Len(Deref(funcOut)) = Len(funcIn.nodes)
        /\ \A i \in 1..Len(FuncNames) : \E j \in 1..Len(FuncHosts) : FuncHosts[j] = FuncNames[i]
        /\ \A j \in 1..Len(FuncHosts) : \E i \in 1..Len(FuncNames) : FuncNames[i] = FuncHosts[j]

\* C1 witness: a ScoreList returned for two nodes with different names.
C1_Witness ==
    /\ FuncDone
    /\ Len(funcIn.nodes) = 2
    /\ FuncNames[1] # FuncNames[2]
    /\ Len(Deref(funcOut)) = 2

\* C2 as claimed: for every node list, no two entries of the ScoreList have the same
\* Host.
C2_NoDuplicateHosts ==
    FuncDone => Distinct(FuncHosts)

\* C2 as amended: when no two nodes of the node list have the same name, no two
\* entries of the ScoreList have the same Host.
C2_NoDuplicateHostsForDistinctNodes ==
    (FuncDone /\ Distinct(FuncNames)) => Distinct(FuncHosts)

\* C2 witness: a ScoreList with two different Hosts, returned for two nodes.
C2_Witness ==
    /\ FuncDone
    /\ Len(funcIn.nodes) = 2
    /\ Distinct(FuncNames)
    /\ Deref(funcOut)[1].Host # Deref(funcOut)[2].Host

(***************************************************************************)
(* Properties of the handle and of the start-up (Spec)                     *)
(***************************************************************************)
Range(q) == {q[k] : k \in 1..Len(q)}
IsPrefix(q, r) == Len(q) <= Len(r) /\ SubSeq(r, 1, Len(q)) = q
HandleSteps == <<"check", "decode", "score", "encode", "write">>
InHand(g) == conn[g].pc # "idle"

\* the request of g has no body, or a body of zero bytes
BodyMissingOrEmpty(g) ==
    conn[g].Body = Nil \/ Deref(conn[g].Body).syntax = "eof"

\* the request of g has a body that is no ExtenderArgs: no JSON value, or a Pod or Nodes
\* member that is no object
BodyUndecodable(g) ==
    /\ conn[g].Body # Nil
    /\ LET doc == Deref(conn[g].Body)
       IN  \/ doc.syntax \in {"eof", "invalid"}
           \/ \E k \in 1..Len(doc.members) :
                 /\ doc.members[k].key \in {"Pod", "pod", "Nodes", "nodes"}
                 /\ doc.members[k].kind = "number"

\* C7 as claimed: a request with a missing or empty body is answered 400, its body is
\* not decoded, the scoring method is not invoked, no ScoreList is written, and the
\* service keeps serving.
C7_EmptyBodyAnswered400 ==
    \A g \in Workers :
        (InHand(g) /\ BodyMissingOrEmpty(g)) =>
            /\ "decode" \notin Range(conn[g].steps)
            /\ "score" \notin Range(conn[g].steps)
            /\ conn[g].pc # "panic"
            /\ conn[g].pc = "done" =>
                  /\ conn[g].w.WriteHeader = <<400>>
                  /\ conn[g].hostPriorityList = Nil
            /\ mainpc.at = "serving"

\* C8 as claimed: an undecodable body ends the request without scoring and without a
\* response, and ends the process: no request that arrives after the panic is answered.
C8_DecodeFailureEndsProcess ==
    \A g \in Workers :
        /\ (BodyUndecodable(g) /\ "decode" \in Range(conn[g].steps)) =>
              /\ conn[g].pc = "panic"
              /\ conn[g].hostPriorityList = Nil
              /\ conn[g].w = NewResponseWriter
        /\ ~(conn[g].afterPanic /\ conn[g].pc = "done")

\* C8 as amended: an undecodable body makes the handle panic with the decoding error:
\* the scoring method is not invoked for the request and nothing is written for it (no
\* 200, no ScoreList, no other status); the panic ends that request only, the process
\* goes on serving.
C8_DecodeFailureAbortsRequest ==
    \A g \in Workers :
        (BodyUndecodable(g) /\ "decode" \in Range(conn[g].steps)) =>
            /\ conn[g].pc = "panic"
            /\ conn[g].panic \in {"EOF", "SyntaxError", "UnmarshalTypeError"}
            /\ conn[g].steps = <<"check", "decode">>
            /\ conn[g].hostPriorityList = Nil
            /\ conn[g].resultBody = Nil
            /\ conn[g].w = NewResponseWriter
            /\ mainpc.at = "serving"

\* C8 witness: a handle that has panicked on an undecodable body while a request that
\* arrived after an earlier such panic has been answered 200.
C8_Witness ==
    \E g, h \in Workers :
        /\ BodyUndecodable(g) /\ conn[g].pc = "panic"
        /\ Deref(conn[g].Body).syntax # "eof"
        /\ conn[h].afterPanic
        /\ conn[h].pc = "done"
        /\ conn[h].w.WriteHeader = <<200>>

\* body is the JSON encoding of the HostPriorityList list
IsEncodingOf(body, list) ==
    /\ Len(body) = Len(list)
    /\ \A j \in 1..Len(list) :
          body[j] = << <<"Host", list[j].Host>>, <<"Score", list[j].Score>> >>

\* C9: the handle runs body check, decode, score, encode, write in this order; 200 is
\* written only after all five, with Content-Type application/json and the encoding of
\* the ScoreList the method returned for the decoded Pod and Nodes.Items; a request
\* gets at most one response, and the handle has ended when it is written.
C9_OrderedStepsOneResponse ==
    \A g \in Workers :
        LET c == conn[g]
        IN  /\ IsPrefix(c.steps, HandleSteps)
            /\ Len(c.w.WriteHeader) <= 1
            /\ Len(c.w.Write) = Len(c.w.WriteHeader)
            /\ c.w.WriteHeader # <<>> => c.pc = "done"
            /\ c.w.WriteHeader = <<400>> => c.steps = <<"check">>
            /\ 200 \in Range(c.w.WriteHeader) =>
                  /\ c.steps = HandleSteps
                  /\ c.w.ContentType = "application/json"
                  /\ c.extenderArgs.Pod # Nil /\ c.extenderArgs.Nodes # Nil
                  /\ c.hostPriorityList =
                        Ptr(ImagePriorityFunc(Deref(c.extenderArgs.Pod),
                                              Deref(c.extenderArgs.Nodes).Items))
                  /\ IsEncodingOf(c.w.Write[1], Deref(c.hostPriorityList))

\* C9 witness: a 200 response that carries the ScoreList [{worker-node2, 1},
\* {worker-node1, 0}].
C9_Witness ==
    \E g \in Workers :
        /\ conn[g].pc = "done"
        /\ conn[g].w.WriteHeader = <<200>>
        /\ conn[g].w.Write = << << << <<"Host", "worker-node2">>, <<"Score", 1>> >>,
                                   << <<"Host", "worker-node1">>, <<"Score", 0>> >> >> >>

\* a prefix that begins with "/" as it is, any other with one "/" before it
Normalised(prefix) ==
    IF Len(prefix) > 0 /\ prefix[1] = "/" THEN prefix ELSE <<"/">> \o prefix

\* the routes of the claim: POST at normalised api prefix + normalised priorities
\* prefix + "/" + name, for each priority method
ExpectedRoutes ==
    {[method |-> "POST",
      path |-> Normalised(argv.api) \o Normalised(argv.prio) \o <<"/", priorities[k]>>,
      priorityMethod |-> priorities[k]] : k \in 1..Len(priorities)}

\* C10: after init both prefixes begin with "/", unchanged when they already did and
\* with one "/" prepended otherwise; once main has registered the methods, and as long
\* as the service serves, the routes are exactly the expected ones.
C10_RoutesAtNormalisedPrefixes ==
    /\ mainpc.at = "init" => routes = {}
    /\ mainpc.at # "init" =>
          /\ apiPrefix = Normalised(argv.api)
          /\ prioritiesPrefix = Normalised(argv.api) \o Normalised(argv.prio)
          /\ HasPrefix(apiPrefix, <<"/">>)
          /\ routes \subseteq ExpectedRoutes
    /\ mainpc.at \in {"serving", "exit"} => routes = ExpectedRoutes

\* C10 witness: the service serves a request on the route registered for the prefixes
\* "ext" and "", both given without their "/".
C10_Witness ==
    /\ mainpc.at = "serving"
    /\ argv.api = <<"ext">> /\ argv.prio = <<>>
    /\ routes = {[method |-> "POST", path |-> <<"/", "ext", "/", "/", "image_score">>,
                  priorityMethod |-> "image_score"]}
    /\ \E g \in Workers : conn[g].pc = "done"

(***************************************************************************)
(* Properties of image_score on two node lists (SpecRelated)               *)
(***************************************************************************)
BothDone == Len(funcOut) = 2

\* C11: the (Host, Score) returned for a node is the same whatever the place of the
\* node in the list and whatever the other nodes of the list: a node that is in both
\* lists gets the same entry in both ScoreLists.
C11_EntryDependsOnOwnNodeOnly ==
    BothDone =>
        \A i \in 1..Len(funcIn.nodes), j \in 1..Len(funcIn.other) :
            funcIn.nodes[i] = funcIn.other[j] => funcOut[1][i] = funcOut[2][j]

\* C11 witness: two nodes returned in exchanged places, the one that scores 1 first in
\* the second list and second in the first.
C11_Witness ==
    /\ BothDone
    /\ Len(funcIn.nodes) = 2 /\ Len(funcIn.other) = 2
    /\ funcIn.nodes[2] = funcIn.other[1]
    /\ funcIn.nodes[1] = funcIn.other[2]
    /\ funcOut[1][1].Score = 0
    /\ funcOut[1][2].Score >= 1
    /\ funcOut[2][1] = funcOut[1][2]

(***************************************************************************)
(* Properties of requests handled at the same time (Spec)                  *)
(***************************************************************************)
\* the request body decodes into a Pod and a node list
Scorable(body) ==
    /\ body # Nil
    /\ LET res == JsonDecode(Deref(body))
       IN  res.err = "" /\ res.args.Pod # Nil /\ res.args.Nodes # Nil

\* what is written for a request of this body handled alone: the body decoded, scored
\* and encoded with nothing else in between
HandledAlone(body) ==
    LET args == JsonDecode(Deref(body)).args
    IN  JsonMarshal(Ptr(ImagePriorityFunc(Deref(args.Pod), Deref(args.Nodes).Items)))

Answered200(g) == 200 \in Range(conn[g].w.WriteHeader)

\* C12: whatever the other goroutine does in between, a 200 response carries the
\* ScoreList of the request's own Pod and Nodes, as if the request had been handled
\* alone, and two requests with the same body get the same ScoreList.
C12_ResponseFromOwnRequestOnly ==
    /\ \A g \in Workers :
          Answered200(g) =>
              /\ Scorable(conn[g].Body)
              /\ conn[g].w.Write = <<HandledAlone(conn[g].Body)>>
    /\ \A g, h \in Workers :
          (Answered200(g) /\ Answered200(h) /\ conn[g].Body = conn[h].Body) =>
              conn[g].w.Write = conn[h].w.Write

\* C12 witness: two requests in hand at the same time, with different bodies, both
\* answered 200 with different ScoreLists.
C12_Witness ==
    \E g, h \in Workers :
        /\ g # h
        /\ Answered200(g) /\ Answered200(h)
        /\ conn[g].Body # conn[h].Body
        /\ conn[g].w.Write # conn[h].w.Write
        /\ conn[g].w.Write = <<HandledAlone(conn[g].Body)>>

(***************************************************************************)
(* Properties of the order of the ScoreList (SpecFunc)                     *)
(***************************************************************************)
\* the number of containers of pod whose image is a substring of a name in images
MatchCount(pod, images) ==
    Cardinality({c \in 1..Len(pod.Spec.Containers) :
        \E i \in 1..Len(images) : \E n \in 1..Len(images[i].Names) :
            IsSubstringOf(pod.Spec.Containers[c].Image, images[i].Names[n])})

\* C13: the i-th entry of the ScoreList has the name of the i-th node of the input as
\* Host and the score of that node as Score.
C13_InputOrderPreserved ==
    FuncDone =>
        /\ Len(Deref(funcOut)) = Len(funcIn.nodes)
        /\ \A i \in 1..Len(funcIn.nodes) :
              /\ Deref(funcOut)[i].Host = funcIn.nodes[i].Name
              /\ Deref(funcOut)[i].Score = MatchCount(funcIn.pod, funcIn.nodes[i].Status.Images)

\* C13 witness: a node without a match before a node with one, returned in that order
\* with the scores 0 and 1.
C13_Witness ==
    /\ FuncDone
    /\ Len(funcIn.nodes) = 2
    /\ funcIn.nodes[1].Name # funcIn.nodes[2].Name
    /\ Deref(funcOut)[1] = [Host |-> funcIn.nodes[1].Name, Score |-> 0]
    /\ Deref(funcOut)[2] = [Host |-> funcIn.nodes[2].Name, Score |-> 1]

(***************************************************************************)
(* Properties of the score under a change of the input (SpecNear)          *)
(***************************************************************************)
NearDone == Len(scoreRun) = 2
NearScore == scoreRun[1].count
Near == scoreRun[2]

\* C14: taking an image record or an alias out of the node never raises the count
\* (adding one never lowers it); taking a container out of the pod lowers it by 0 or 1
\* (adding one raises it by 0 or 1); exchanging two adjacent image records, aliases of
\* a record, or containers leaves it as it is.
C14_ScoreMonotoneAndOrderFree ==
    NearDone =>
        /\ \A i \in DOMAIN Near.lessRecord : Near.lessRecord[i] <= NearScore
        /\ \A i \in DOMAIN Near.lessAlias : \A n \in DOMAIN Near.lessAlias[i] :
              Near.lessAlias[i][n] <= NearScore
        /\ \A c \in DOMAIN Near.lessContainer :
              /\ Near.lessContainer[c] <= NearScore
              /\ NearScore <= Near.lessContainer[c] + 1
        /\ \A i \in DOMAIN Near.swapRecords : Near.swapRecords[i] = NearScore
        /\ \A i \in DOMAIN Near.swapAliases : \A n \in DOMAIN Near.swapAliases[i] :
              Near.swapAliases[i][n] = NearScore
        /\ \A c \in DOMAIN Near.swapContainers : Near.swapContainers[c] = NearScore

\* C14 witness: a pod of two different containers on a node of two different records,
\* one of them with two different aliases; the count is 1, it is 0 without one of the
\* records, 0 without one of the aliases and 0 without one of the containers.
C14_Witness ==
    /\ NearDone
    /\ NearScore = 1
    /\ Len(scoreIn.pod.Spec.Containers) = 2
    /\ scoreIn.pod.Spec.Containers[1] # scoreIn.pod.Spec.Containers[2]
    /\ Len(scoreIn.node.Status.Images) = 2
    /\ scoreIn.node.Status.Images[1] # scoreIn.node.Status.Images[2]
    /\ \E i \in 1..2 : /\ Len(scoreIn.node.Status.Images[i].Names) = 2
                       /\ scoreIn.node.Status.Images[i].Names[1]
                             # scoreIn.node.Status.Images[i].Names[2]
    /\ \E i \in DOMAIN Near.lessRecord : Near.lessRecord[i] = 0
    /\ \E i \in DOMAIN Near.lessAlias : \E n \in DOMAIN Near.lessAlias[i] :
          Near.lessAlias[i][n] = 0
    /\ \E c \in DOMAIN Near.lessContainer : Near.lessContainer[c] = 0

====
